---- MODULE Spec2Model ----
(***************************************************************************)
(* State-machine model of src/anketo_app.py, a Streamlit script.  One      *)
(* script run is executed top to bottom for every user interaction; the    *)
(* only state kept between runs is st.session_state["show_guide"] and the  *)
(* widgets' values (the uploaded file).  pc is the position of the run in  *)
(* the script.  p-values are written in thousandths (50 is 0.05).          *)
(***************************************************************************)
EXTENDS Integers, Sequences, FiniteSets, TLC

\* Largest number of data rows of an uploaded CSV file with missing answers.
MaxRows == 3

\* Largest number of data rows of a complete survey file.
MaxFlowRows == 4

\* The significance threshold 0.05, in thousandths.
Alpha == 50

----------------------------------------------------------------------------
(* CSV cells are the text of the field, as in the uploaded file.           *)

NA == ""
NumTokens == {"1", "2"}
BoolTokens == {"True"}
StrTokens == {"a", "b", "c"}

\* float() of a numeric field
NumVal(tok) == IF tok = "1" THEN 1 ELSE 2

\* Python's order of the labels (sorted() of str: digits, upper, lower case)
TokOrder == <<"1", "2", "True", "a", "b", "c">>

Range(s) == {s[i] : i \in DOMAIN s}

\* sorted(S) for a set of labels
Sorted(S) == SelectSeq(TokOrder, LAMBDA t : t \in S)

Csv(cols, n, cell) == [kind |-> "csv", cols |-> cols, nrows |-> n, cell |-> cell]

NoFile == [kind |-> "none", cols |-> <<>>, nrows |-> 0, cell |-> <<>>]
\* a file pd.read_csv raises on (not a CSV, no columns)
BadFile == [kind |-> "bad", cols |-> <<>>, nrows |-> 0, cell |-> <<>>]

LabelCells == StrTokens \cup {NA}
NumCells == NumTokens \cup {NA}
AnyCells == {NA, "1", "a", "b", "True"}

\* a column of n scores without a missing one: 1, 2, 1, 2, ...
Scores(n) == [i \in 1..n |-> IF i % 2 = 1 THEN "1" ELSE "2"]
Ones(n) == [i \in 1..n |-> "1"]
\* a question nobody answered
Blanks(n) == [i \in 1..n |-> NA]

----------------------------------------------------------------------------
VARIABLES
  show_guide,     \* st.session_state["show_guide"]
  uploaded_file,  \* value of the file_uploader widget
  clicked,        \* the button whose click started this run: "open", "close", "none"
  pc,             \* position of the script run
  page,           \* what the run has rendered outside the analysis tabs
  df,             \* the DataFrame read from the file
  numeric_cols,
  cat_cols,
  tab2,           \* what the cross-tabulation tab computed and rendered
  tab3,           \* ... the group comparison tab
  tab4            \* ... the paired comparison tab

vars == <<show_guide, uploaded_file, clicked, pc, page, df, numeric_cols, cat_cols,
          tab2, tab3, tab4>>

----------------------------------------------------------------------------
(* The uploads a user may make, in families of files.                     *)

\* Complete surveys: a department, a score before and a score after.
\* With them, files without a categorical column and an unreadable file.
UploadFlow ==
  \/ uploaded_file' = BadFile
  \/ \E n \in 0..MaxFlowRows : \E g \in [1..n -> StrTokens] :
       uploaded_file' = Csv(<<"dept", "pre", "post">>, n, [dept |-> g, pre |-> Scores(n), post |-> Ones(n)])
  \/ \E n \in 0..MaxFlowRows :
       uploaded_file' = Csv(<<"pre", "post">>, n, [pre |-> Scores(n), post |-> Ones(n)])

\* a grouping column and a score column, both with missing answers
UploadGroup ==
  \E n \in 0..MaxRows : \E g \in [1..n -> LabelCells], v \in [1..n -> NumCells] :
    uploaded_file' = Csv(<<"dept", "score">>, n, [dept |-> g, score |-> v])

\* before/after measurements with missing answers, beside one department
UploadPaired ==
  \E n \in 0..MaxRows : \E x \in [1..n -> NumCells], y \in [1..n -> NumCells] :
    uploaded_file' = Csv(<<"dept", "pre", "post">>, n, [dept |-> [i \in 1..n |-> "a"], pre |-> x, post |-> y])

\* two columns of labels with missing answers, beside an unanswered score
UploadCross ==
  \E n \in 0..MaxRows : \E g \in [1..n -> {NA, "a", "b"}], h \in [1..n -> {NA, "a", "b"}] :
    uploaded_file' = Csv(<<"dept", "sex", "score">>, n, [dept |-> g, sex |-> h, score |-> Blanks(n)])

\* a column of any content beside a department and a score
UploadKind ==
  \E n \in 1..MaxRows : \E c \in [1..n -> AnyCells] :
    uploaded_file' = Csv(<<"k", "dept", "score">>, n, [k |-> c, dept |-> [i \in 1..n |-> "a"], score |-> Ones(n)])

NoDf == [cols |-> <<>>, nrows |-> 0, cell |-> <<>>, dtype |-> <<>>]

\* a selectbox over no options returns None
None == ""

\* the values st.selectbox can return for a list of options
Options(cols) == IF cols = <<>> THEN {None} ELSE Range(cols)

----------------------------------------------------------------------------
(* Results of the scipy.stats tests.  The library is not part of the       *)
(* repository: a test returns some p-value, NaN where the statistic is     *)
(* undefined, or raises where the library rejects the input.               *)

PGrid == {49, 50, 51}
NoRes == [kind |-> "none", p |-> 0]
NaNRes == [kind |-> "nan", p |-> 0]
Raised == [kind |-> "raise", p |-> 0]
Finite == {[kind |-> "ok", p |-> q] : q \in PGrid}

\* Python's p < 0.05: False for NaN
PLess(res, a) == res.kind = "ok" /\ res.p < a

AllVals(samples) == UNION {Range(samples[k]) : k \in DOMAIN samples}
Constant(samples) == Cardinality(AllVals(samples)) <= 1

RECURSIVE TotalLen(_)
TotalLen(samples) ==
  IF samples = <<>> THEN 0 ELSE Len(Head(samples)) + TotalLen(Tail(samples))

\* stats.ttest_ind(g1, g2, equal_var=False)
ttest_ind(samples) ==
  IF Len(samples[1]) < 2 \/ Len(samples[2]) < 2 THEN {NaNRes}
  ELSE IF Cardinality(Range(samples[1])) = 1 /\ Cardinality(Range(samples[2])) = 1
       THEN Finite \cup {NaNRes}
       ELSE Finite

\* stats.mannwhitneyu(g1, g2, alternative="two-sided")
mannwhitneyu(samples) ==
  IF Constant(samples) THEN Finite \cup {Raised} ELSE Finite

\* stats.f_oneway(*samples)
f_oneway(samples) ==
  IF TotalLen(samples) = Len(samples) \/ Constant(samples) THEN {NaNRes} ELSE Finite

\* stats.kruskal(*samples)
kruskal(samples) ==
  IF Constant(samples) THEN {Raised, NaNRes} ELSE Finite

Diffs(before, after) == {before[i] - after[i] : i \in DOMAIN before}

\* stats.ttest_rel(before, after)
ttest_rel(before, after) ==
  IF Len(before) < 2 THEN {NaNRes}
  ELSE IF Cardinality(Diffs(before, after)) = 1 THEN Finite \cup {NaNRes}
       ELSE Finite

\* stats.wilcoxon(before, after)
wilcoxon(before, after) ==
  IF Diffs(before, after) \subseteq {0} THEN {Raised, NaNRes} ELSE Finite

----------------------------------------------------------------------------
(* pandas operations used by the script                                    *)

\* dtype pd.read_csv infers for a column
InferDtype(cells) ==
  IF Len(cells) = 0 THEN "object"
  ELSE IF \A i \in DOMAIN cells : cells[i] \in NumTokens \cup {NA} THEN "number"
  ELSE IF \A i \in DOMAIN cells : cells[i] \in BoolTokens THEN "bool"
  ELSE "object"

\* pd.read_csv(uploaded_file)
read_csv(f) ==
  [cols |-> f.cols, nrows |-> f.nrows, cell |-> f.cell,
   dtype |-> [c \in Range(f.cols) |-> InferDtype(f.cell[c])]]

\* df.select_dtypes(include=kinds).columns.tolist()
select_dtypes(d, kinds) == SelectSeq(d.cols, LAMBDA c : d.dtype[c] \in kinds)

\* df[cols].dropna(): the rows kept, in the frame's order
dropna(d, cols) ==
  SelectSeq([i \in 1..d.nrows |-> i], LAMBDA i : \A c \in cols : d.cell[c][i] /= NA)

\* crosstab counting a missing value as a category of its own
crosstab_keepna(d, r, c) ==
  LET valid == 1..d.nrows
      index == {d.cell[r][i] : i \in valid}
      columns == {d.cell[c][i] : i \in valid}
  IN [index |-> index, columns |-> columns,
      count |-> [pr \in index \X columns |->
                   Cardinality({i \in valid : d.cell[r][i] = pr[1] /\ d.cell[c][i] = pr[2]})]]

\* pd.crosstab(df[r], df[c])
crosstab(d, r, c) ==
  LET valid == Range(dropna(d, {r, c}))
      index == {d.cell[r][i] : i \in valid}
      columns == {d.cell[c][i] : i \in valid}
  IN [index |-> index, columns |-> columns,
      count |-> [pr \in index \X columns |->
                   Cardinality({i \in valid : d.cell[r][i] = pr[1] /\ d.cell[c][i] = pr[2]})]]

----------------------------------------------------------------------------
NoTab2 == [row_col |-> None, col_col |-> None, shown |-> {}, index |-> {}, columns |-> {},
           count |-> <<>>]

NoTab3 == [group_col |-> None, value_col |-> None, rows |-> <<>>, groups |-> <<>>,
           group_count |-> 0, branch |-> "none", test |-> "", samples |-> <<>>,
           res |-> NoRes, posthoc |-> "", p_values_df |-> <<>>,
           significant_pairs |-> <<>>, shown |-> {}]

NoTab4 == [col_pre |-> None, col_post |-> None, outcome |-> "none", rows |-> <<>>,
           before |-> <<>>, after |-> <<>>, n |-> 0, test |-> "", res |-> NoRes,
           shown |-> {}]

Init ==
  /\ show_guide = FALSE
  /\ uploaded_file = NoFile
  /\ clicked = "none"
  /\ pc = "idle"
  /\ page = {}
  /\ df = NoDf
  /\ numeric_cols = <<>>
  /\ cat_cols = <<>>
  /\ tab2 = NoTab2
  /\ tab3 = NoTab3
  /\ tab4 = NoTab4

Ended == pc \in {"idle", "done", "stopped", "raised"}

\* the interactions that start a script run: a widget change, a click on the
\* open-guide or the close-guide button, the upload of a file
Interactions == {"rerun", "open", "close", "upload"}

\* A user interaction starts a script run; the sidebar is executed
\* (uploader, open-guide button).  upload is the upload the user may make,
\* once per session.
StartRun(upload) ==
  /\ Ended
  /\ \E act \in Interactions :
       /\ act = "close" => "guide" \in page
       /\ act = "upload" => uploaded_file = NoFile
       /\ IF act = "upload"
          THEN upload
          ELSE uploaded_file' = uploaded_file
       /\ clicked' = IF act \in {"open", "close"} THEN act ELSE "none"
       /\ show_guide' = IF act = "open" THEN TRUE ELSE show_guide
  /\ pc' = "guide_check"
  /\ page' = {}
  /\ df' = NoDf
  /\ numeric_cols' = <<>>
  /\ cat_cols' = <<>>
  /\ tab2' = NoTab2
  /\ tab3' = NoTab3
  /\ tab4' = NoTab4

\* GuideCheck with the close click handled before the flag is tested
GuideCheck_closeFirst ==
  /\ pc = "guide_check"
  /\ IF show_guide /\ clicked /= "close"
     THEN /\ page' = page \cup {"guide"}
          /\ show_guide' = show_guide
          /\ pc' = "stopped"
     ELSE /\ pc' = "upload_check"
          /\ show_guide' = FALSE
          /\ page' = page
  /\ UNCHANGED <<uploaded_file, clicked, df, numeric_cols, cat_cols, tab2, tab3, tab4>>

\* if st.session_state.get("show_guide", False): ... st.stop()
GuideCheck ==
  /\ pc = "guide_check"
  /\ IF show_guide
     THEN /\ page' = page \cup {"guide"}
          /\ show_guide' = IF clicked = "close" THEN FALSE ELSE show_guide
          /\ pc' = "stopped"
     ELSE /\ pc' = "upload_check"
          /\ UNCHANGED <<page, show_guide>>
  /\ UNCHANGED <<uploaded_file, clicked, df, numeric_cols, cat_cols, tab2, tab3, tab4>>

\* if not uploaded_file: st.info(...); st.stop()
UploadCheck ==
  /\ pc = "upload_check"
  /\ IF uploaded_file.kind = "none"
     THEN page' = page \cup {"info_upload"} /\ pc' = "stopped"
     ELSE page' = page /\ pc' = "read"
  /\ UNCHANGED <<show_guide, uploaded_file, clicked, df, numeric_cols, cat_cols,
                 tab2, tab3, tab4>>

\* try: df = pd.read_csv(...) except: st.error(...); st.stop()
ReadCsv ==
  /\ pc = "read"
  /\ IF uploaded_file.kind = "bad"
     THEN /\ page' = page \cup {"error_read"}
          /\ pc' = "stopped"
          /\ df' = df
     ELSE /\ df' = read_csv(uploaded_file)
          /\ page' = page \cup {"preview"}
          /\ pc' = "classify"
  /\ UNCHANGED <<show_guide, uploaded_file, clicked, numeric_cols, cat_cols,
                 tab2, tab3, tab4>>

\* numeric_cols / cat_cols, then the descriptive and the rating tab, which
\* render only: neither stops the run nor writes anything read later.
Classify ==
  /\ pc = "classify"
  /\ numeric_cols' = select_dtypes(df, {"number"})
  /\ cat_cols' = select_dtypes(df, {"object", "category"})
  /\ pc' = "tab2"
  /\ UNCHANGED <<show_guide, uploaded_file, clicked, page, df, tab2, tab3, tab4>>

\* with tab2: cross-tabulation
CrossTabulate(d, cats, r, c) ==
  IF Len(cats) < 2
  THEN [NoTab2 EXCEPT !.shown = {"warning_need_two"}]
  ELSE IF r = None \/ c = None
  THEN [NoTab2 EXCEPT !.row_col = r, !.col_col = c]
  ELSE IF r = c
  THEN [NoTab2 EXCEPT !.row_col = r, !.col_col = c, !.shown = {"warning_same"}]
  ELSE LET ct == crosstab(d, r, c)
       IN [row_col |-> r, col_col |-> c, shown |-> {"table", "download", "chart"},
           index |-> ct.index, columns |-> ct.columns, count |-> ct.count]

Tab2 ==
  /\ pc = "tab2"
  /\ \E r \in Options(cat_cols), c \in Options(cat_cols) :
       tab2' = CrossTabulate(df, cat_cols, r, c)
  /\ pc' = "tab3"
  /\ UNCHANGED <<show_guide, uploaded_file, clicked, page, df, numeric_cols, cat_cols,
                 tab3, tab4>>

\* the two radio options of each comparison: the mean-based or the rank-based test
Choices == {"param", "rank"}

\* Conclusion with the threshold included
Conclusion_inclusive(res) ==
  IF res.kind = "ok" /\ res.p <= Alpha THEN {"significant"} ELSE {"not_significant"}

\* if p < 0.05: st.success(...) else: st.info(...)
Conclusion(res) == IF PLess(res, Alpha) THEN {"significant"} ELSE {"not_significant"}

\* Branch with the two-group test stretched to three groups
Branch_threeAsTwo(group_count) ==
  IF group_count < 2 THEN "insufficient"
  ELSE IF group_count <= 3 THEN "two"
  ELSE "multi"

\* the group_count branches of tab3
Branch(group_count) ==
  IF group_count < 2 THEN "insufficient"
  ELSE IF group_count = 2 THEN "two"
  ELSE "multi"

\* the Series of value_col of the rows of one group
Sample(d, rows, g, v, label) ==
  LET rk == SelectSeq(rows, LAMBDA i : d.cell[g][i] = label)
  IN [j \in 1..Len(rk) |-> NumVal(d.cell[v][rk[j]])]

\* g1, g2 of the two-group branch; samples of the multi-group branch
Samples(d, rows, g, v, groups, branch) ==
  IF branch = "two"
  THEN <<Sample(d, rows, g, v, groups[1]), Sample(d, rows, g, v, groups[2])>>
  ELSE IF branch = "multi"
  THEN [k \in 1..Len(groups) |-> Sample(d, rows, g, v, groups[k])]
  ELSE <<>>

\* GroupPrepare dropping only the rows without a grouping label
GroupPrepare_labelOnly(d, g, v) ==
  LET rows == dropna(d, {g})
      groups == Sorted({d.cell[g][i] : i \in Range(rows)})
      branch == Branch(Len(groups))
  IN [NoTab3 EXCEPT !.group_col = g, !.value_col = v, !.rows = rows, !.groups = groups,
                    !.group_count = Len(groups), !.branch = branch,
                    !.samples = Samples(d, rows, g, v, groups, branch),
                    !.shown = {"boxplot"}]

\* df_filtered, groups, group_count, the box plot
GroupPrepare(d, g, v) ==
  LET rows == dropna(d, {g, v})
      groups == Sorted({d.cell[g][i] : i \in Range(rows)})
      branch == Branch(Len(groups))
  IN [NoTab3 EXCEPT !.group_col = g, !.value_col = v, !.rows = rows, !.groups = groups,
                    !.group_count = Len(groups), !.branch = branch,
                    !.samples = Samples(d, rows, g, v, groups, branch),
                    !.shown = {"boxplot"}]

\* the test the radio choice selects in a branch
GroupTest(branch, choice) ==
  IF branch = "two" THEN (IF choice = "param" THEN "ttest_ind" ELSE "mannwhitneyu")
  ELSE IF branch = "multi" THEN (IF choice = "param" THEN "f_oneway" ELSE "kruskal")
  ELSE ""

GroupOutcomes(test, samples) ==
  IF test = "ttest_ind" THEN ttest_ind(samples)
  ELSE IF test = "mannwhitneyu" THEN mannwhitneyu(samples)
  ELSE IF test = "f_oneway" THEN f_oneway(samples)
  ELSE IF test = "kruskal" THEN kruskal(samples)
  ELSE {NoRes}

\* PostHoc run whenever the test returned, significant or not
PostHoc_ungated(test, res) ==
  IF test = "f_oneway" THEN "posthoc_tukey" ELSE "posthoc_dunn"

\* the post-hoc comparison run after an omnibus test
PostHoc(test, res) ==
  IF ~PLess(res, Alpha) THEN ""
  ELSE IF test = "f_oneway" THEN "posthoc_tukey"
  ELSE "posthoc_dunn"

\* what tab3 renders below the box plot
GroupFinish(base, test, res) ==
  IF base.branch = "insufficient"
  THEN [base EXCEPT !.shown = @ \cup {"warning_groups"}]
  ELSE IF res.kind = "raise"
  THEN [base EXCEPT !.test = test, !.res = res, !.shown = @ \cup {"radio"}]
  ELSE IF base.branch = "two"
  THEN [base EXCEPT !.test = test, !.res = res,
                    !.shown = @ \cup {"radio", "stat", "pvalue"} \cup Conclusion(res)]
  ELSE LET ph == PostHoc(test, res)
       IN [base EXCEPT !.test = test, !.res = res, !.posthoc = ph,
                       !.shown = @ \cup {"radio", "stat", "pvalue"} \cup Conclusion(res)
                                   \cup (IF ph = "" THEN {} ELSE {"posthoc_table", "posthoc_summary"})]

\* the adjusted p-values a post-hoc matrix holds off its diagonal, in
\* thousandths: one below the threshold, one exactly at it
PostHocGrid == {Alpha - 1, Alpha}

\* what the post-hoc routines write on the diagonal: 1 in the current releases
\* of scikit-posthocs, -1 in the earlier ones
DiagVals == {-1, 1000}

\* the sets {a, b} of two distinct positions of 1..k
PairsOf(k) == {{a, b} : a \in 1..k, b \in 1..k} \ {{a} : a \in 1..k}

\* sp.posthoc_tukey / sp.posthoc_dunn: a symmetric matrix of adjusted p-values
\* with the sorted group labels as index and as columns
posthoc(groups) ==
  LET k == Len(groups)
  IN {[labels |-> groups,
       iloc |-> [j \in 1..k |-> [i \in 1..k |-> IF i = j THEN d ELSE u[{i, j}]]]] :
        u \in [PairsOf(k) -> PostHocGrid], d \in DiagVals}

\* the (column, row) positions in the order of the two nested loops
LoopOrder(k) == [m \in 1..(k * k) |-> <<((m - 1) \div k) + 1, ((m - 1) % k) + 1>>]

\* the summary visiting every pair of distinct positions, in both orders
SignificantPairs_bothOrders(p_values_df) ==
  LET k == Len(p_values_df.labels)
      hit == SelectSeq(LoopOrder(k),
                       LAMBDA ij : ij[1] /= ij[2] /\ p_values_df.iloc[ij[2]][ij[1]] < Alpha)
  IN [m \in 1..Len(hit) |-> <<p_values_df.labels[hit[m][1]], p_values_df.labels[hit[m][2]]>>]

\* significant_pairs: for i, col / for j, row_label / if i < j / if p_val < 0.05
SignificantPairs(p_values_df) ==
  LET k == Len(p_values_df.labels)
      hit == SelectSeq(LoopOrder(k),
                       LAMBDA ij : ij[1] < ij[2] /\ p_values_df.iloc[ij[2]][ij[1]] < Alpha)
  IN [m \in 1..Len(hit) |-> <<p_values_df.labels[hit[m][1]], p_values_df.labels[hit[m][2]]>>]

\* def display_posthoc_results(p_values_df): the table, then the summary
display_posthoc_results(t, p_values_df) ==
  LET significant_pairs == SignificantPairs(p_values_df)
  IN [t EXCEPT !.p_values_df = p_values_df,
               !.significant_pairs = significant_pairs,
               !.shown = @ \cup (IF significant_pairs /= <<>>
                                 THEN {"success_pairs"}
                                 ELSE {"info_no_pair"})]

\* Tab3 whose unselected case falls through to the next tab
Tab3_noStop ==
  /\ pc = "tab3"
  /\ \E g \in Options(cat_cols), v \in Options(numeric_cols) :
       IF g = None \/ v = None
       THEN /\ tab3' = [NoTab3 EXCEPT !.group_col = g, !.value_col = v, !.branch = "stop"]
            /\ pc' = "tab4"
            /\ page' = page
       ELSE \E choice \in Choices :
              LET base == GroupPrepare(df, g, v)
                  test == GroupTest(base.branch, choice)
              IN \E res \in GroupOutcomes(test, base.samples) :
                   LET fin == GroupFinish(base, test, res)
                   IN /\ IF fin.posthoc = ""
                         THEN tab3' = fin
                         ELSE \E p_values_df \in posthoc(fin.groups) :
                                tab3' = display_posthoc_results(fin, p_values_df)
                      /\ pc' = IF res.kind = "raise" THEN "raised" ELSE "tab4"
                      /\ page' = IF res.kind = "raise" THEN page \cup {"exception"} ELSE page
  /\ UNCHANGED <<show_guide, uploaded_file, clicked, df, numeric_cols, cat_cols, tab2, tab4>>

\* with tab3: group comparison
Tab3 ==
  /\ pc = "tab3"
  /\ \E g \in Options(cat_cols), v \in Options(numeric_cols) :
       IF g = None \/ v = None
       THEN /\ tab3' = [NoTab3 EXCEPT !.group_col = g, !.value_col = v, !.branch = "stop"]
            /\ pc' = "stopped"
            /\ page' = page
       ELSE \E choice \in Choices :
              LET base == GroupPrepare(df, g, v)
                  test == GroupTest(base.branch, choice)
              IN \E res \in GroupOutcomes(test, base.samples) :
                   LET fin == GroupFinish(base, test, res)
                   IN /\ IF fin.posthoc = ""
                         THEN tab3' = fin
                         ELSE \E p_values_df \in posthoc(fin.groups) :
                                tab3' = display_posthoc_results(fin, p_values_df)
                      /\ pc' = IF res.kind = "raise" THEN "raised" ELSE "tab4"
                      /\ page' = IF res.kind = "raise" THEN page \cup {"exception"} ELSE page
  /\ UNCHANGED <<show_guide, uploaded_file, clicked, df, numeric_cols, cat_cols, tab2, tab4>>

\* the values of one column in the rows kept
Series(d, rows, c) == [j \in 1..Len(rows) |-> NumVal(d.cell[c][rows[j]])]

\* PairedPrepare dropping only the rows without a "before" value
PairedPrepare_beforeOnly(d, a, b) ==
  IF a = None \/ b = None
  THEN [NoTab4 EXCEPT !.col_pre = a, !.col_post = b]
  ELSE IF a = b
  THEN [NoTab4 EXCEPT !.col_pre = a, !.col_post = b, !.outcome = "identity",
                      !.shown = {"warning_same"}]
  ELSE LET rows == dropna(d, {a})
           before == Series(d, rows, a)
           after == Series(d, rows, b)
       IN IF Len(before) = 0
          THEN [NoTab4 EXCEPT !.col_pre = a, !.col_post = b, !.outcome = "empty",
                              !.shown = {"warning_empty"}]
          ELSE [NoTab4 EXCEPT !.col_pre = a, !.col_post = b, !.outcome = "test",
                              !.rows = rows, !.before = before, !.after = after,
                              !.n = Len(before), !.shown = {"n_label", "radio"}]

\* PairedPrepare without the check for an empty aligned frame
PairedPrepare_noEmptyCheck(d, a, b) ==
  IF a = None \/ b = None
  THEN [NoTab4 EXCEPT !.col_pre = a, !.col_post = b]
  ELSE IF a = b
  THEN [NoTab4 EXCEPT !.col_pre = a, !.col_post = b, !.outcome = "identity",
                      !.shown = {"warning_same"}]
  ELSE LET rows == dropna(d, {a, b})
       IN [NoTab4 EXCEPT !.col_pre = a, !.col_post = b, !.outcome = "test",
                         !.rows = rows, !.before = Series(d, rows, a),
                         !.after = Series(d, rows, b),
                         !.n = Len(rows), !.shown = {"n_label", "radio"}]

\* the guards of tab4 and temp_df, before, after
PairedPrepare(d, a, b) ==
  IF a = None \/ b = None
  THEN [NoTab4 EXCEPT !.col_pre = a, !.col_post = b]
  ELSE IF a = b
  THEN [NoTab4 EXCEPT !.col_pre = a, !.col_post = b, !.outcome = "identity",
                      !.shown = {"warning_same"}]
  ELSE LET rows == dropna(d, {a, b})
           before == Series(d, rows, a)
           after == Series(d, rows, b)
       IN IF Len(before) = 0
          THEN [NoTab4 EXCEPT !.col_pre = a, !.col_post = b, !.outcome = "empty",
                              !.shown = {"warning_empty"}]
          ELSE [NoTab4 EXCEPT !.col_pre = a, !.col_post = b, !.outcome = "test",
                              !.rows = rows, !.before = before, !.after = after,
                              !.n = Len(before), !.shown = {"n_label", "radio"}]

PairedTest(outcome, choice) ==
  IF outcome /= "test" THEN ""
  ELSE IF choice = "param" THEN "ttest_rel"
  ELSE "wilcoxon"

PairedOutcomes(test, before, after) ==
  IF test = "ttest_rel" THEN ttest_rel(before, after)
  ELSE IF test = "wilcoxon" THEN wilcoxon(before, after)
  ELSE {NoRes}

\* the result, the conclusion and the chart of the means
PairedFinish(base, test, res) ==
  IF base.outcome /= "test" THEN base
  ELSE IF res.kind = "raise"
  THEN [base EXCEPT !.test = test, !.res = res]
  ELSE [base EXCEPT !.test = test, !.res = res,
                    !.shown = @ \cup {"stat", "pvalue", "mean_chart"} \cup Conclusion(res)]

\* with tab4: paired comparison; then the glossary at the end of the script
Tab4 ==
  /\ pc = "tab4"
  /\ \E a \in Options(numeric_cols), b \in Options(numeric_cols), choice \in Choices :
       LET base == PairedPrepare(df, a, b)
           test == PairedTest(base.outcome, choice)
       IN \E res \in PairedOutcomes(test, base.before, base.after) :
            /\ tab4' = PairedFinish(base, test, res)
            /\ pc' = IF res.kind = "raise" THEN "raised" ELSE "done"
            /\ page' = page \cup (IF res.kind = "raise" THEN {"exception"} ELSE {"glossary"})
  /\ UNCHANGED <<show_guide, uploaded_file, clicked, df, numeric_cols, cat_cols, tab2, tab3>>

Run == GuideCheck \/ UploadCheck \/ ReadCsv \/ Classify \/ Tab2 \/ Tab3 \/ Tab4

\* the whole script under every interaction
Next == StartRun(UploadFlow) \/ Run
Spec == Init /\ [][Next]_vars

\* the script over files with missing answers
NextGroup == StartRun(UploadGroup) \/ Run
SpecGroup == Init /\ [][NextGroup]_vars

NextPaired == StartRun(UploadPaired) \/ Run
SpecPaired == Init /\ [][NextPaired]_vars

NextCross == StartRun(UploadCross) \/ Run
SpecCross == Init /\ [][NextCross]_vars

NextKinds == StartRun(UploadKind) \/ Run
SpecKinds == Init /\ [][NextKinds]_vars

----------------------------------------------------------------------------
(* Properties                                                              *)

\* the rows of the frame in which every column of cs has a value
Complete(cs) == {i \in 1..df.nrows : \A c \in cs : df.cell[c][i] /= NA}

\* the labels of column g in a set of rows
LabelsIn(g, rows) == {df.cell[g][i] : i \in rows}

\* tab3 got past its selection check in this run
Tab3Ran == tab3.branch \in {"insufficient", "two", "multi"}

\* the branch and the test family that a count of groups must lead to
RoutedBy(count) ==
  /\ count < 2 => tab3.branch = "insufficient" /\ tab3.test = ""
  /\ count = 2 => tab3.branch = "two" /\ tab3.test \in {"ttest_ind", "mannwhitneyu"}
  /\ count >= 3 => tab3.branch = "multi" /\ tab3.test \in {"f_oneway", "kruskal"}

\* C1 as stated: the group comparison routes by the number of distinct
\* non-missing values of the grouping column: 1 ends in Insufficient, 2
\* reaches the two-group tests, 3 or more the multi-group tests.
C1_RoutesByColumnLabels ==
  Tab3Ran =>
    LET count == Cardinality(LabelsIn(tab3.group_col, 1..df.nrows) \ {NA})
    IN count >= 1 => RoutedBy(count)

\* C1 amended: the group comparison routes by the number of distinct
\* grouping values among the rows in which both the grouping label and the
\* value are present: 0 or 1 ends in Insufficient with no test, 2 reaches the
\* two-group tests, 3 or more the multi-group tests.
C1_RoutesByCompleteRows ==
  Tab3Ran =>
    RoutedBy(Cardinality(LabelsIn(tab3.group_col, Complete({tab3.group_col, tab3.value_col}))))

\* three labels in the column, one of them without any value: two-group test
C1_Witness ==
  /\ tab3.branch = "two"
  /\ tab3.test = "mannwhitneyu"
  /\ Cardinality(LabelsIn(tab3.group_col, 1..df.nrows) \ {NA}) = 3

\* C2: the group count used for branching is computed after rows with a
\* missing label or a missing value are dropped: a label whose rows all miss
\* the value is not in groups and is not counted, a missing label is no
\* group, and no sample passed to a test is empty.
C2_GroupsAfterDrop ==
  Tab3Ran =>
    LET g == tab3.group_col
        v == tab3.value_col
        kept == LabelsIn(g, Complete({g, v}))
    IN /\ \A l \in LabelsIn(g, 1..df.nrows) :
            (\A i \in 1..df.nrows : df.cell[g][i] = l => df.cell[v][i] = NA)
               => l \notin Range(tab3.groups)
       /\ NA \notin Range(tab3.groups)
       /\ Range(tab3.groups) = kept
       /\ tab3.group_count = Cardinality(kept)
       /\ RoutedBy(tab3.group_count)
       /\ \A k \in DOMAIN tab3.samples : Len(tab3.samples[k]) > 0
       /\ tab3.test /= "" => Len(tab3.samples) = tab3.group_count

\* a label whose only row misses the value is left out, and a test still runs
C2_Witness ==
  /\ tab3.test = "ttest_ind"
  /\ \E l \in LabelsIn(tab3.group_col, 1..df.nrows) \ {NA} : l \notin Range(tab3.groups)

\* a test of tab3 returned a result (it did not raise)
Tab3Result == tab3.test /= "" /\ tab3.res.kind \in {"ok", "nan"}

\* a test of tab4 returned a result
Tab4Result == tab4.test /= "" /\ tab4.res.kind \in {"ok", "nan"}

\* the p-value is a number below 0.05
Below(res) == res.kind = "ok" /\ res.p \in {q \in PGrid : q < Alpha}

\* C3: in the multi-group branch a post-hoc matrix is computed and shown if
\* and only if the omnibus test of the run returned p < 0.05 (not for
\* p >= 0.05, not for an undefined p), Tukey after ANOVA and Dunn after
\* Kruskal-Wallis; no other branch computes one.
C3_PostHocGate ==
  /\ tab3.branch = "multi" /\ Tab3Result =>
       /\ tab3.posthoc /= "" <=> Below(tab3.res)
       /\ "posthoc_table" \in tab3.shown <=> Below(tab3.res)
       /\ "posthoc_summary" \in tab3.shown <=> Below(tab3.res)
       /\ tab3.test = "f_oneway" => tab3.posthoc \in {"", "posthoc_tukey"}
       /\ tab3.test = "kruskal" => tab3.posthoc \in {"", "posthoc_dunn"}
  /\ ~(tab3.branch = "multi" /\ Tab3Result) =>
       tab3.posthoc = "" /\ tab3.shown \cap {"posthoc_table", "posthoc_summary"} = {}

\* a significant ANOVA followed by Tukey's comparison
C3_Witness ==
  /\ tab3.test = "f_oneway"
  /\ tab3.res = [kind |-> "ok", p |-> 49]
  /\ tab3.posthoc = "posthoc_tukey"
  /\ "posthoc_table" \in tab3.shown

\* exactly one conclusion is shown, the significant one iff p < 0.05
OneConclusion(shown, res) ==
  /\ "significant" \in shown <=> Below(res)
  /\ "not_significant" \in shown <=> ~Below(res)

\* C4: for every test that produces a result the conclusion shown is the
\* significant one if and only if p < 0.05 strictly (p = 0.05 is not
\* significant), and exactly one of the two conclusions is shown.
C4_Threshold ==
  /\ Tab3Result => OneConclusion(tab3.shown, tab3.res)
  /\ Tab4Result => OneConclusion(tab4.shown, tab4.res)

\* p = 0.05 exactly in the paired test after a significant group test
C4_Witness ==
  /\ tab3.res = [kind |-> "ok", p |-> 49]
  /\ "significant" \in tab3.shown
  /\ tab4.test = "wilcoxon"
  /\ tab4.res = [kind |-> "ok", p |-> Alpha]
  /\ "not_significant" \in tab4.shown

\* the j-th row, in the frame's order, of a set of rows
Kth(rows, j) == CHOOSE i \in rows : Cardinality({h \in rows : h <= i}) = j

\* C5: the paired comparison aligns before and after by row and drops a row
\* when either value is missing: both series have the length n, the number
\* of rows with both values, and their i-th values are those of the i-th
\* such row.
C5_PairedAlignment ==
  tab4.test /= "" =>
    LET both == Complete({tab4.col_pre, tab4.col_post})
    IN /\ tab4.n = Cardinality(both)
       /\ Len(tab4.before) = tab4.n
       /\ Len(tab4.after) = tab4.n
       /\ \A j \in 1..tab4.n :
            /\ tab4.before[j] = NumVal(df.cell[tab4.col_pre][Kth(both, j)])
            /\ tab4.after[j] = NumVal(df.cell[tab4.col_post][Kth(both, j)])

\* the example before = [1, NaN, 1], after = [2, 2, NaN]: only the pair (1, 2)
C5_Witness ==
  /\ tab4.col_pre = "pre"
  /\ tab4.col_post = "post"
  /\ df.cell["pre"] = <<"1", NA, "1">>
  /\ df.cell["post"] = <<"2", "2", NA>>
  /\ tab4.before = <<1>>
  /\ tab4.after = <<2>>
  /\ tab4.n = 1
  /\ tab4.test = "ttest_rel"

ResultTags == {"stat", "pvalue", "significant", "not_significant", "mean_chart"}

\* tab4 was executed in this run
Tab4Ran == pc \in {"done", "raised"} /\ tab4.col_pre /= None /\ tab4.col_post /= None

\* C6: the paired comparison invokes a test only when the two selections are
\* different columns and at least one aligned pair remains; identical
\* selections end in ColumnIdentity, no remaining pair in EmptyAfterAlignment,
\* and both show no statistic, p-value, conclusion or chart of the means.
C6_PairedGuards ==
  Tab4Ran =>
    LET same == tab4.col_pre = tab4.col_post
        pairs == Cardinality(Complete({tab4.col_pre, tab4.col_post}))
    IN /\ tab4.test /= "" <=> ~same /\ pairs >= 1
       /\ same => tab4.outcome = "identity"
       /\ ~same /\ pairs = 0 => tab4.outcome = "empty"
       /\ tab4.outcome \in {"identity", "empty"} =>
            /\ tab4.res = NoRes
            /\ tab4.shown \cap ResultTags = {}
            /\ tab4.shown = IF same THEN {"warning_same"} ELSE {"warning_empty"}

\* rows exist but none has both values
C6_Witness ==
  /\ pc = "done"
  /\ tab4.outcome = "empty"
  /\ df.nrows = MaxRows
  /\ tab4.col_pre /= tab4.col_post

\* C7 as stated: when an analysis ends in an error kind (InsufficientGroups,
\* SameColumn, ColumnIdentity, EmptyAfterAlignment) only the error is shown
\* for it: no statistic, table or chart of that analysis in the same run.
C7_OnlyErrorShown ==
  /\ tab3.branch = "insufficient" => tab3.shown = {"warning_groups"}
  /\ "warning_same" \in tab2.shown => tab2.shown = {"warning_same"}
  /\ tab4.outcome = "identity" => tab4.shown = {"warning_same"}
  /\ tab4.outcome = "empty" => tab4.shown = {"warning_empty"}

\* C8 as stated: a statistically undefined paired test (the Wilcoxon test on
\* differences that are all zero, or any test on a single pair) shows no
\* statistic, p-value or conclusion.
C8_DegenerateNotShown ==
  tab4.test /= "" /\ (tab4.n = 1 \/ (tab4.test = "wilcoxon" /\ Diffs(tab4.before, tab4.after) = {0}))
    => tab4.shown \cap {"stat", "pvalue", "significant", "not_significant"} = {}

\* the columns were classified in this run
Classified == pc \in {"tab2", "tab3", "tab4", "done", "raised"} \/ (pc = "stopped" /\ tab3.branch = "stop")

\* C9 as stated: the classifier partitions the columns: no column is both
\* numeric and categorical, every column is one of them, numeric when all its
\* non-missing values are numbers and categorical otherwise.
C9_Partition ==
  Classified =>
    /\ Range(numeric_cols) \cap Range(cat_cols) = {}
    /\ Range(numeric_cols) \cup Range(cat_cols) = Range(df.cols)
    /\ \A c \in Range(df.cols) :
         c \in Range(numeric_cols) <=>
           \A i \in 1..df.nrows : df.cell[c][i] \in NumTokens \cup {NA}

RECURSIVE SumCells(_, _)
SumCells(count, cells) ==
  IF cells = {} THEN 0
  ELSE LET x == CHOOSE y \in cells : TRUE
       IN count[x] + SumCells(count, cells \ {x})

\* C10: the cells of the contingency table of two distinct categorical
\* columns sum to the number of rows in which both are present; a row with a
\* missing value is in no cell and a missing value is no row or column
\* category.
C10_CrossTabTotal ==
  "table" \in tab2.shown =>
    LET both == Complete({tab2.row_col, tab2.col_col})
    IN /\ tab2.row_col /= tab2.col_col
       /\ DOMAIN tab2.count = tab2.index \X tab2.columns
       /\ SumCells(tab2.count, DOMAIN tab2.count) = Cardinality(both)
       /\ NA \notin tab2.index
       /\ NA \notin tab2.columns
       /\ \A i \in 1..df.nrows : i \notin both =>
            \A pr \in DOMAIN tab2.count :
              tab2.count[pr] =
                Cardinality({h \in (1..df.nrows) \ {i} :
                               df.cell[tab2.row_col][h] = pr[1] /\ df.cell[tab2.col_col][h] = pr[2]})

\* a table over rows of which some miss one of the two values
C10_Witness ==
  /\ "table" \in tab2.shown
  /\ Cardinality(Complete({tab2.row_col, tab2.col_col})) = 2
  /\ df.nrows = MaxRows
  /\ Cardinality(DOMAIN tab2.count) = 4

\* ---- C11 ----

\* the post-hoc matrix was shown in this run
PostHocShown == tab3.posthoc /= "" /\ "posthoc_table" \in tab3.shown

\* the positions at which the summary lists the two groups, in either order
ListedAt(a, b) ==
  {m \in DOMAIN tab3.significant_pairs :
     {tab3.significant_pairs[m][1], tab3.significant_pairs[m][2]} = {a, b}}

\* the adjusted p-value the matrix holds for two groups given by position
Adjusted(i, j) == tab3.p_values_df.iloc[i][j]

\* C11: when a post-hoc matrix is shown, the summary lists every unordered
\* pair of distinct groups at most once, lists it exactly when its adjusted
\* p-value in the matrix is below 0.05, never lists a group with itself, and
\* reports "no significant pair" exactly when no off-diagonal entry of the
\* matrix is below 0.05.
C11_PostHocSummary ==
  PostHocShown =>
    LET labels == tab3.p_values_df.labels
        k == Len(labels)
    IN /\ labels = tab3.groups
       /\ \A i \in 1..k, j \in 1..k :
            /\ Cardinality(ListedAt(labels[i], labels[j])) <= 1
            /\ i /= j => (ListedAt(labels[i], labels[j]) /= {} <=> Adjusted(i, j) < Alpha)
            /\ i = j => ListedAt(labels[i], labels[j]) = {}
       /\ \A m \in DOMAIN tab3.significant_pairs :
            /\ tab3.significant_pairs[m][1] /= tab3.significant_pairs[m][2]
            /\ {tab3.significant_pairs[m][1], tab3.significant_pairs[m][2]} \subseteq Range(labels)
       /\ "info_no_pair" \in tab3.shown
            <=> ~(\E i \in 1..k, j \in 1..k : i /= j /\ Adjusted(i, j) < Alpha)
       /\ "success_pairs" \in tab3.shown <=> "info_no_pair" \notin tab3.shown

\* a matrix of three groups whose diagonal is below 0.05, with one pair below
\* the threshold listed once and one pair exactly at the threshold not listed
C11_Witness ==
  /\ PostHocShown
  /\ tab3.group_count = 3
  /\ Adjusted(1, 1) < Alpha
  /\ Adjusted(2, 1) < Alpha
  /\ Adjusted(3, 1) = Alpha
  /\ Len(tab3.significant_pairs) = 1
  /\ "success_pairs" \in tab3.shown

\* ---- C12 ----

\* the run has ended after the dataset was loaded
LoadedRunEnded == "preview" \in page /\ pc \in {"stopped", "done", "raised"}

\* the grouping column or the value column of tab3 has nothing to select
Unselected == cat_cols = <<>> \/ numeric_cols = <<>>

\* the run went past tab3 into tab4
PairedReached == pc = "done" \/ (pc = "raised" /\ tab3.res.kind /= "raise")

\* a test of tab3 raised, which ends the run inside tab3
GroupRaised == pc = "raised" /\ tab3.res.kind = "raise"

\* the run stopped in tab3: tab4 and the glossary were not executed
StoppedInGroup ==
  /\ pc = "stopped"
  /\ tab3.branch = "stop"
  /\ tab3.group_col = None \/ tab3.value_col = None
  /\ tab4 = NoTab4
  /\ "glossary" \notin page

Analysing ==
  \/ pc \in {"classify", "tab2", "tab3", "tab4", "done", "raised"}
  \/ df /= NoDf
  \/ "preview" \in page
  \/ tab2 /= NoTab2 \/ tab3 /= NoTab3 \/ tab4 /= NoTab4

\* in every state: analysis only with the flag off, a file uploaded and
\* parsed; a run that rendered the guide stopped with nothing read; a run
\* started by the open click has the flag on and renders the guide
GuideGate ==
  /\ Analysing =>
       /\ ~show_guide
       /\ "guide" \notin page
       /\ uploaded_file.kind = "csv"
       /\ df = read_csv(uploaded_file)
  /\ pc \in {"upload_check", "read"} => ~show_guide /\ "guide" \notin page
  /\ pc = "read" => uploaded_file.kind /= "none"
  /\ "guide" \in page =>
       /\ pc = "stopped"
       /\ page = {"guide"}
       /\ ~Analysing
  /\ clicked = "open" => show_guide /\ (pc = "guide_check" \/ "guide" \in page)

\* in every step: the test of the flag decides between the guide and the
\* rest of the script; the close click is processed after the guide was
\* rendered, in a run that stops; the flag is turned on by the open click
\* only and turned off by the close click only
GuideStep ==
  /\ pc = "guide_check" /\ show_guide =>
       /\ "guide" \in page'
       /\ pc' = "stopped"
       /\ df' = NoDf
       /\ show_guide' <=> clicked /= "close"
  /\ pc = "guide_check" /\ ~show_guide =>
       /\ "guide" \notin page'
       /\ pc' = "upload_check"
       /\ ~show_guide'
  /\ ~show_guide /\ show_guide' => Ended /\ clicked' = "open" /\ pc' = "guide_check"
  /\ show_guide /\ ~show_guide' => pc = "guide_check" /\ clicked = "close"
  /\ Ended /\ pc' = "guide_check" /\ clicked' /= "open" => show_guide' = show_guide

\* C13: across any sequence of runs, a run analyses the dataset only if
\* show_guide is false when it is tested, a file is uploaded and the file
\* parsed; a run in which show_guide is true renders the guide and stops
\* before the file is read, the run that processes the close click included,
\* so that closing shows in the following run and opening in the same run.
C13_GuideGatesAnalysis == [](GuideGate) /\ [][GuideStep]_vars

\* the run that processed the close click, with a file uploaded: the guide
\* was rendered, the run stopped, the flag is off for the next run
C13_Witness ==
  /\ clicked = "close"
  /\ "guide" \in page
  /\ pc = "stopped"
  /\ ~show_guide
  /\ uploaded_file.kind = "csv"
  /\ uploaded_file.nrows >= 2

====
